---- MODULE Spec2Model ----
(***************************************************************************)
(* Model of complaint_borough.py: a command-line tool that reads a CSV of  *)
(* 311 service requests, keeps the rows whose 'Created Date' lies in a     *)
(* date window, counts them per (complaint type, borough) and prints the   *)
(* counts sorted by key.                                                   *)
(*                                                                         *)
(* Text is modelled as sequences of character codes.  A date text is       *)
(* modelled as the sequence of its numeric fields, in the order in which   *)
(* they are written: <<month, day, year>> for MM/DD/YYYY and               *)
(* <<month, day, year, hour, minute, second, AM|PM>> for                   *)
(* MM/DD/YYYY hh:mm:ss AM/PM; any other sequence is a text that the date   *)
(* pattern does not match.                                                 *)
(***************************************************************************)
EXTENDS Integers, Sequences, FiniteSets, TLC

(* ---------------------------- bounds ----------------------------------- *)

\* Largest number of data rows read from the input file in one run.
MaxRows == 3

(* ---------------------------- characters ------------------------------- *)

SP == 32
TAB == 9
COMMA == 44
AM == 0
PM == 1
NBSP == 160

\* The characters str.strip() removes: the code points c for which
\* chr(c).isspace() holds.
Whitespace ==
    {9, 10, 11, 12, 13, 28, 29, 30, 31, 32, 133, 160, 5760}
    \cup (8192..8202)
    \cup {8232, 8233, 8239, 8287, 12288}

Range(s) == {s[i] : i \in DOMAIN s}

Last(s) == s[Len(s)]

(* ---------------------------- str.strip -------------------------------- *)

RECURSIVE LStrip(_)
LStrip(s) ==
    IF s = <<>> THEN <<>>
    ELSE IF Head(s) \in Whitespace THEN LStrip(Tail(s))
    ELSE s

RECURSIVE RStrip(_)
RStrip(s) ==
    IF s = <<>> THEN <<>>
    ELSE IF Last(s) \in Whitespace THEN RStrip(SubSeq(s, 1, Len(s) - 1))
    ELSE s

Strip(s) == RStrip(LStrip(s))

(* ---------------------------- datetime --------------------------------- *)

NoDt == [y |-> 0, mo |-> 0, d |-> 0, h |-> 0, mi |-> 0, s |-> 0]

IsLeap(y) == (y % 4 = 0) /\ ((y % 100 # 0) \/ (y % 400 = 0))

DaysInMonth(y, mo) ==
    IF mo = 2 THEN (IF IsLeap(y) THEN 29 ELSE 28)
    ELSE IF mo \in {4, 6, 9, 11} THEN 30
    ELSE 31

ValidDate(y, mo, d) ==
    /\ y \in 1..9999
    /\ mo \in 1..12
    /\ d >= 1
    /\ d <= DaysInMonth(y, mo)

\* datetime's ordering: year, month, day, hour, minute, second in turn.
DtTuple(t) == <<t.y, t.mo, t.d, t.h, t.mi, t.s>>

RECURSIVE TupleLess(_, _)
TupleLess(a, b) ==
    IF a = <<>> \/ b = <<>> THEN FALSE
    ELSE IF Head(a) # Head(b) THEN Head(a) < Head(b)
    ELSE TupleLess(Tail(a), Tail(b))

DtLess(a, b) == TupleLess(DtTuple(a), DtTuple(b))

DtGreater(a, b) == DtLess(b, a)

\* %I with %p: the 12-hour clock value as an hour of the day.
Hour24(h, p) ==
    IF p = PM THEN (IF h # 12 THEN h + 12 ELSE h)
    ELSE (IF h = 12 THEN 0 ELSE h)

\* datetime.strptime(text, '%m/%d/%Y'): ok, or ValueError.
StrptimeDate(text) ==
    IF /\ Len(text) = 3
       /\ ValidDate(text[3], text[1], text[2])
    THEN [ok |-> TRUE,
          dt |-> [y |-> text[3], mo |-> text[1], d |-> text[2],
                  h |-> 0, mi |-> 0, s |-> 0]]
    ELSE [ok |-> FALSE, dt |-> NoDt]

\* datetime.strptime(text, '%m/%d/%Y %I:%M:%S %p'): ok, or ValueError.
StrptimeStamp(text) ==
    IF /\ Len(text) = 7
       /\ ValidDate(text[3], text[1], text[2])
       /\ text[4] \in 1..12
       /\ text[5] \in 0..59
       /\ text[6] \in 0..59
       /\ text[7] \in {AM, PM}
    THEN [ok |-> TRUE,
          dt |-> [y |-> text[3], mo |-> text[1], d |-> text[2],
                  h |-> Hour24(text[4], text[7]),
                  mi |-> text[5], s |-> text[6]]]
    ELSE [ok |-> FALSE, dt |-> NoDt]

\* A value handed over by the CSV reader: a text, or None.
Text(s) == [none |-> FALSE, v |-> s]
None == [none |-> TRUE, v |-> <<>>]

\* parse_date: a datetime ("ok"), None ("None"), or an exception that the
\* function does not catch ("TypeError", raised by strptime for a None).
parse_date(date_str) ==
    IF date_str.none THEN [tag |-> "TypeError", dt |-> NoDt]
    ELSE IF StrptimeStamp(date_str.v).ok
         THEN [tag |-> "ok", dt |-> StrptimeStamp(date_str.v).dt]
    ELSE [tag |-> "None", dt |-> NoDt]

\* end_date.replace(hour=23, minute=59, second=59)
EndOfDay(dt) == [dt EXCEPT !.h = 23, !.mi = 59, !.s = 59]

(* ---------------------------- csv.DictReader --------------------------- *)

ColDate == "Created Date"
ColType == "Complaint Type"
ColBorough == "Borough"

\* Position of the cell a column name maps to: DictReader builds the row
\* with dict(zip(fieldnames, cells)), so that a name the header line
\* repeats keeps the cell of its last position.
ColIndex(header, col) ==
    CHOOSE i \in DOMAIN header :
        /\ header[i] = col
        /\ \A j \in DOMAIN header : header[j] = col => j <= i

\* row.get(col, ''): DictReader pairs the header names with the cells of
\* the line; a name of the header that the line has no cell for maps to
\* None, and a name that is not in the header is not a key of the row.
Get(header, row, col) ==
    IF col \notin Range(header) THEN Text(<<>>)
    ELSE IF ColIndex(header, col) > Len(row) THEN None
    ELSE Text(row[ColIndex(header, col)])

(* ---------------------------- the count table -------------------------- *)

\* complaint_counts is a dict: its items are kept in insertion order.
\* It is modelled as the sequence of its items [k |-> key, n |-> count].

Keys(table) == {table[i].k : i \in DOMAIN table}

Count(table, key) ==
    IF key \in Keys(table)
    THEN (CHOOSE e \in Range(table) : e.k = key).n
    ELSE 0

\* Mutant: the count of a key is set to 1 instead of being incremented.
Increment_assign(table, key) ==
    IF key \in Keys(table)
    THEN [i \in DOMAIN table |->
             IF table[i].k = key THEN [table[i] EXCEPT !.n = 1]
             ELSE table[i]]
    ELSE Append(table, [k |-> key, n |-> 1])

\* Mutant: a new key is created by the defaultdict with its default 0 and
\* only an existing key is incremented.
Increment_default(table, key) ==
    IF key \in Keys(table)
    THEN [i \in DOMAIN table |->
             IF table[i].k = key THEN [table[i] EXCEPT !.n = @ + 1]
             ELSE table[i]]
    ELSE Append(table, [k |-> key, n |-> 0])

\* complaint_counts[(complaint_type, borough)] += 1
Increment(table, key) ==
    IF key \in Keys(table)
    THEN [i \in DOMAIN table |->
             IF table[i].k = key THEN [table[i] EXCEPT !.n = @ + 1]
             ELSE table[i]]
    ELSE Append(table, [k |-> key, n |-> 1])

\* Mutant: the end of the window is exclusive.
OutOfRange_exclusive(created_date, start, end) ==
    DtLess(created_date, start) \/ ~DtLess(created_date, end)

\* created_date < start_date or created_date > end_date
OutOfRange(created_date, start, end) ==
    DtLess(created_date, start) \/ DtGreater(created_date, end)

\* row.get(col, '').strip(): None has no strip, which raises AttributeError.
FieldOf(value) ==
    IF value.none THEN [raise |-> TRUE, v |-> <<>>]
    ELSE [raise |-> FALSE, v |-> Strip(value.v)]

\* The body of the read loop for one row: "skip" (continue), "count" (the
\* increment was done) or "raise" (an exception err left the loop).
RowStep(header, row, start, end, table) ==
    LET created_date == parse_date(Get(header, row, ColDate))
        complaint_type == FieldOf(Get(header, row, ColType))
        borough == FieldOf(Get(header, row, ColBorough))
    IN  IF created_date.tag = "TypeError"
        THEN [tag |-> "raise", err |-> "TypeError", table |-> table]
        ELSE IF created_date.tag = "None"
        THEN [tag |-> "skip", err |-> "", table |-> table]
        ELSE IF OutOfRange(created_date.dt, start, end)
        THEN [tag |-> "skip", err |-> "", table |-> table]
        ELSE IF complaint_type.raise \/ borough.raise
        THEN [tag |-> "raise", err |-> "AttributeError", table |-> table]
        ELSE IF complaint_type.v = <<>> \/ borough.v = <<>>
        THEN [tag |-> "skip", err |-> "", table |-> table]
        ELSE [tag |-> "count", err |-> "",
              table |-> Increment(table, <<complaint_type.v, borough.v>>)]

\* The loop of filter_complaints over the data lines rows, from the empty
\* table: the table it returns ("ok"), or the exception that ends it.
RECURSIVE FoldRows(_, _, _, _, _)
FoldRows(header, rows, start, end, table) ==
    IF rows = <<>> THEN [tag |-> "ok", table |-> table]
    ELSE LET r == RowStep(header, Head(rows), start, end, table)
         IN  IF r.tag = "raise" THEN [tag |-> "raise", table |-> table]
             ELSE FoldRows(header, Tail(rows), start, end, r.table)

FilterAll(header, rows, start, end) == FoldRows(header, rows, start, end, <<>>)

(* ---------------------------- output_results --------------------------- *)

\* Python's order on str: by code point, a proper prefix first.
RECURSIVE StrLess(_, _)
StrLess(s, t) ==
    IF t = <<>> THEN FALSE
    ELSE IF s = <<>> THEN TRUE
    ELSE IF Head(s) # Head(t) THEN Head(s) < Head(t)
    ELSE StrLess(Tail(s), Tail(t))

\* Python's order on the tuples (x[0][0], x[0][1]).
KeyLess(k1, k2) ==
    IF k1[1] # k2[1] THEN StrLess(k1[1], k2[1])
    ELSE StrLess(k1[2], k2[2])

\* Insert an item behind every item whose key is not greater (stable).
RECURSIVE Insert(_, _)
Insert(sorted, item) ==
    IF sorted = <<>> THEN <<item>>
    ELSE IF KeyLess(item.k, Head(sorted).k) THEN <<item>> \o sorted
    ELSE <<Head(sorted)>> \o Insert(Tail(sorted), item)

RECURSIVE InsertionSort(_)
InsertionSort(items) ==
    IF items = <<>> THEN <<>>
    ELSE Insert(InsertionSort(SubSeq(items, 1, Len(items) - 1)), Last(items))

\* Mutant: the items are left in the dict's insertion order.
SortedItems_unsorted(table) == table

\* sorted(complaint_counts.items(), key=lambda x: (x[0][0], x[0][1]))
SortedItems(table) == InsertionSort(table)

\* str(count) for a count >= 0, as decimal digits.
RECURSIVE Digits(_)
Digits(n) ==
    IF n < 10 THEN <<48 + n>>
    ELSE Digits(n \div 10) \o <<48 + (n % 10)>>

\* 'complaint type, borough, count'
HeaderLine ==
    <<99, 111, 109, 112, 108, 97, 105, 110, 116, 32, 116, 121, 112, 101,
      44, 32, 98, 111, 114, 111, 117, 103, 104, 44, 32, 99, 111, 117, 110,
      116>>

\* f'{complaint_type}, {borough}, {count}'
DataLine(item) ==
    item.k[1] \o <<COMMA, SP>> \o item.k[2] \o <<COMMA, SP>> \o Digits(item.n)

\* Mutant: the header line is left out.
OutputLines_noheader(sorted) == [i \in DOMAIN sorted |-> DataLine(sorted[i])]

\* output_lines: the header followed by one line per item.
OutputLines(sorted) ==
    <<HeaderLine>> \o [i \in DOMAIN sorted |-> DataLine(sorted[i])]

(* ---------------------------- inputs ----------------------------------- *)

\* Command-line dates: 01/31/2024, 02/01/2024 and 02/30/2024 (no such day).
CliDates == {<<1, 31, 2024>>, <<2, 1, 2024>>, <<2, 30, 2024>>}

\* Command lines.  scan: what argparse meets while it goes through the
\* command line from left to right, in the order met: "help" for -h,
\* "novalue" for an option that takes a value and has none (it is followed
\* by another option or ends the command line).  required: -i, -s and -e
\* are all given.  output: the value of -o, "" when it is not given.
\* '-i -h -s 01/31/2024 -e 01/31/2024' has scan <<"novalue", "help">>,
\* '-h -i' has scan <<"help", "novalue">>.
Scans == {<<"help">>, <<"novalue">>, <<"help", "novalue">>, <<"novalue", "help">>}

Argvs ==
    {[scan |-> <<>>, required |-> TRUE, start |-> s, end |-> e, output |-> o] :
        s \in CliDates, e \in CliDates, o \in {"", "out.csv"}}
    \cup {[scan |-> c, required |-> r, start |-> <<1, 31, 2024>>,
           end |-> <<1, 31, 2024>>, output |-> ""] : c \in Scans, r \in BOOLEAN}
    \cup {[scan |-> <<>>, required |-> FALSE, start |-> <<1, 31, 2024>>,
           end |-> <<1, 31, 2024>>, output |-> ""]}

\* The environment of the run.  input: the input path can be opened for
\* reading, does not exist, or is refused.  output: the output path can be
\* written, cannot be opened ("denied"), or can be opened but not written
\* to ("full": a full disk, a file size limit).  old: a file exists at the
\* output path before the run.  stdout: standard output accepts what is
\* written to it, or not ("fails": closed, a broken pipe, a full device).
\* Standard error is open and accepts what is written to it.
FileSystems ==
    {[input |-> i, output |-> o, old |-> b, stdout |-> t] :
        i \in {"ok", "missing", "denied"}, o \in {"ok", "denied", "full"},
        b \in BOOLEAN, t \in {"ok", "fails"}}

\* Header lines of the input file.
\* The second one has no Borough column and has the date behind the type.
Headers ==
    { <<ColDate, ColType, ColBorough>>,
      <<ColType, ColDate>> }

\* Created Date texts.
Jan31First == <<1, 31, 2024, 12, 0, 0, AM>>
Jan31Noon == <<1, 31, 2024, 12, 0, 0, PM>>
Jan31Last == <<1, 31, 2024, 11, 59, 59, PM>>
Feb01First == <<2, 1, 2024, 12, 0, 0, AM>>
Hour13 == <<1, 31, 2024, 13, 0, 0, PM>>

\* Field texts: "A", "B", "X", "Y", "\xa0A ", "\tX" and "  ".
sA == <<65>>
sB == <<66>>
sX == <<88>>
sY == <<89>>
sPadA == <<NBSP, 65, SP>>
sTabX == <<TAB, 88>>
sBlank == <<SP, SP>>

\* Data lines of the input file, as the cells the CSV reader splits them
\* into; the last two are lines with fewer cells than the header has names.
Rows ==
    { <<Jan31Last, sA, sX>>,
      <<Jan31First, sPadA, sTabX>>,
      <<Jan31Last, sB, sX>>,
      <<Jan31Noon, sA, sY>>,
      <<Feb01First, sB, sY>>,
      <<Hour13, sA, sX>>,
      <<Jan31Last, <<>>, sX>>,
      <<Jan31Last, sA, sBlank>>,
      <<Jan31Last, sA>>,
      <<Jan31Last>> }

\* The runs explored.  Every command line, environment and header is taken
\* together with every other when the run ends before the first row is
\* read, but for the parts of the environment that the command line does
\* not use.  The runs that read rows take the first header with each
\* window on standard output, the window 01/31/2024..01/31/2024 on
\* standard output with each header and with a standard output that
\* fails, and that window with an output file that is new and written,
\* or old and refused, or old and not written.
ReadsRows(a, f) ==
    /\ a.scan = <<>>
    /\ a.required
    /\ StrptimeDate(a.start).ok
    /\ StrptimeDate(a.end).ok
    /\ ~DtGreater(StrptimeDate(a.start).dt, EndOfDay(StrptimeDate(a.end).dt))
    /\ f.input = "ok"

InputCase(a, f, h) ==
    /\ a.output = "" => (f.output = "ok" /\ ~f.old)
    /\ a.output # "" => f.stdout = "ok"
    /\ ReadsRows(a, f) =>
          \/ /\ a.output = ""
             /\ f.stdout = "ok"
             /\ h = <<ColDate, ColType, ColBorough>>
          \/ /\ a.output = ""
             /\ f.stdout = "ok"
             /\ a.start = <<1, 31, 2024>>
             /\ a.end = <<1, 31, 2024>>
          \/ /\ h = <<ColDate, ColType, ColBorough>>
             /\ a.start = <<1, 31, 2024>>
             /\ a.end = <<1, 31, 2024>>
             /\ a.output = "" \/ (f.old <=> f.output # "ok")

(* ---------------------------- state ------------------------------------ *)

VARIABLES
    pc,               \* position of main
    argv,             \* the command line
    fs,               \* the file system
    header,           \* header line of the input file
    start_date,       \* main: start_date
    end_date,         \* main: end_date
    input_open,       \* the input file handle is open
    consumed,         \* the data lines the reader has yielded so far
    complaint_counts, \* filter_complaints: complaint_counts
    sorted_items,     \* output_results: sorted_items
    output_lines,     \* output_results: output_lines
    stdout,           \* lines written to standard output
    stderr,           \* messages written to standard error
    outfile,          \* the file at the output path
    status,           \* exit status of the process, -1 while it runs
    called            \* the calls made so far: open_input, output_results, open_output

vars == <<pc, argv, fs, header, start_date, end_date, input_open, consumed,
          complaint_counts, sorted_items, output_lines, stdout, stderr,
          outfile, status, called>>

Running == -1

NoFile == [exists |-> FALSE, lines |-> <<>>]

\* 'OLD', the content of a file that is at the output path before the run
OldLine == <<79, 76, 68>>

OldFile == [exists |-> TRUE, lines |-> <<OldLine>>]

\* The file at the output path when the run starts.
InitialFile(f) == IF f.old THEN OldFile ELSE NoFile

\* 'usage', standing for the help text argparse prints for -h
HelpText == <<117, 115, 97, 103, 101>>

Init ==
    /\ pc = "parse_args"
    /\ argv \in Argvs
    /\ fs \in FileSystems
    /\ header \in Headers
    /\ InputCase(argv, fs, header)
    /\ start_date = NoDt
    /\ end_date = NoDt
    /\ input_open = FALSE
    /\ consumed = <<>>
    /\ complaint_counts = <<>>
    /\ sorted_items = <<>>
    /\ output_lines = <<>>
    /\ stdout = <<>>
    /\ stderr = <<>>
    /\ outfile = InitialFile(fs)
    /\ status = Running
    /\ called = {}

\* Mutant: sys.exit() is called without a status, which exits with 0.
Fail_nostatus(msg, code) ==
    /\ stderr' = Append(stderr, msg)
    /\ status' = 0
    /\ pc' = "done"

\* sys.exit(code) after print(msg, file=sys.stderr)
Fail(msg, code) ==
    /\ stderr' = Append(stderr, msg)
    /\ status' = code
    /\ pc' = "done"

\* parser.parse_args() goes through the command line from left to right.
\* -h prints the help and exits with 0 at the place where it stands; an
\* option without its value is reported by parser.error, which exits with
\* 2, at the place where it stands; the first of the two decides.  The
\* required options are checked after the whole command line has been
\* gone through, and a missing one is reported by parser.error.
Argparse(a) ==
    IF a.scan # <<>>
    THEN (IF a.scan[1] = "help" THEN "help" ELSE "error")
    ELSE IF ~a.required THEN "error"
    ELSE "ok"

\* The message of parser.error.
ArgparseMessage(a) ==
    IF a.scan # <<>>
    THEN "error: expected one argument"
    ELSE "error: the following arguments are required"

\* What -h leaves behind and the status the process ends with.  Standard
\* output accepts the help: the help on it, 0.  Standard output fails:
\* sys.stdout is None and argparse writes the help to standard error
\* instead (file or sys.stderr), 0; or the write fails at once, argparse
\* passes over the OSError and some first part of the help, or none of it,
\* is on standard output, 0; or the help is buffered and the final flush
\* of the interpreter fails with some first part of the help, or none of
\* it, on standard output, 120.
PrintHelp ==
    IF fs.stdout = "ok"
    THEN /\ stdout' = Append(stdout, HelpText)
         /\ status' = 0
         /\ UNCHANGED stderr
    ELSE \/ /\ status' = 0
            /\ stderr' = Append(stderr, "usage")
            /\ UNCHANGED stdout
         \/ \E st \in {0, 120}, k \in 0..(Len(HelpText) - 1) :
               /\ status' = st
               /\ stdout' = IF k = 0 THEN stdout
                            ELSE Append(stdout, SubSeq(HelpText, 1, k))
               /\ stderr' = IF st = 120
                            THEN Append(stderr, "Exception ignored: OSError")
                            ELSE stderr

ParseArgs ==
    /\ pc = "parse_args"
    /\ UNCHANGED <<argv, fs, header, start_date, end_date, input_open,
                   consumed, complaint_counts, sorted_items, output_lines,
                   outfile, called>>
    /\ IF Argparse(argv) = "help"
       THEN /\ PrintHelp
            /\ pc' = "done"
       ELSE IF Argparse(argv) = "error"
       THEN /\ Fail(ArgparseMessage(argv), 2)
            /\ UNCHANGED stdout
       ELSE /\ pc' = "parse_dates"
            /\ UNCHANGED <<stdout, stderr, status>>

\* Mutant: the range check is left out.
BadRange_none(start, end) == FALSE

\* start_date > end_date
BadRange(start, end) == DtGreater(start, end)

\* main: parse the two dates, close the window at the end of the end day,
\* validate the range.
ParseDates ==
    /\ pc = "parse_dates"
    /\ UNCHANGED <<argv, fs, header, input_open, consumed, complaint_counts,
                   sorted_items, output_lines, stdout, outfile, called>>
    /\ LET s == StrptimeDate(argv.start)
           e == StrptimeDate(argv.end)
       IN  IF ~s.ok
           THEN /\ Fail("Error: Dates must be in MM/DD/YYYY format", 1)
                /\ UNCHANGED <<start_date, end_date>>
           ELSE IF ~e.ok
           THEN /\ Fail("Error: Dates must be in MM/DD/YYYY format", 1)
                /\ start_date' = s.dt
                /\ UNCHANGED end_date
           ELSE /\ start_date' = s.dt
                /\ end_date' = EndOfDay(e.dt)
                /\ IF BadRange(s.dt, EndOfDay(e.dt))
                   THEN Fail("Error: Start date must be before or equal to end date", 1)
                   ELSE /\ pc' = "open"
                        /\ UNCHANGED <<stderr, status>>

\* Mutant: the handler reports the error but does not exit, so that
\* filter_complaints goes on to return the table.
ReadFail_return(msg) ==
    /\ stderr' = Append(stderr, msg)
    /\ status' = status
    /\ pc' = "output"

\* The except clauses of filter_complaints: report and sys.exit(1).
ReadFail(msg) ==
    /\ stderr' = Append(stderr, msg)
    /\ status' = 1
    /\ pc' = "done"

\* Mutant: the handle is not closed when the block is left.
Release_leak(open) == open

\* Leaving the with block, by its end or by an exception, closes the file.
Release(open) == FALSE

\* filter_complaints: open(input_file, 'r').
OpenInput ==
    /\ pc = "open"
    /\ called' = called \cup {"open_input"}
    /\ UNCHANGED <<argv, fs, header, start_date, end_date, consumed,
                   complaint_counts, sorted_items, output_lines, stdout,
                   outfile>>
    /\ IF fs.input = "missing"
       THEN /\ ReadFail("Error: File not found.")
            /\ UNCHANGED input_open
       ELSE IF fs.input = "denied"
       THEN /\ ReadFail("Error reading file: PermissionError")
            /\ UNCHANGED input_open
       ELSE /\ input_open' = TRUE
            /\ pc' = "loop"
            /\ UNCHANGED <<stderr, status>>

\* filter_complaints: one turn of the loop over the reader, for the next
\* data line of the file.
ReadRow ==
    /\ pc = "loop"
    /\ Len(consumed) < MaxRows
    /\ \E row \in Rows :
          LET r == RowStep(header, row, start_date, end_date, complaint_counts)
          IN  /\ consumed' = Append(consumed, row)
              /\ IF r.tag = "raise"
                 THEN /\ input_open' = Release(input_open)
                      /\ ReadFail("Error reading file: " \o r.err)
                      /\ UNCHANGED complaint_counts
                 ELSE /\ complaint_counts' = r.table
                      /\ UNCHANGED <<input_open, pc, stderr, status>>
    /\ UNCHANGED <<argv, fs, header, start_date, end_date, sorted_items,
                   output_lines, stdout, outfile, called>>

\* filter_complaints: the reader raises while it reads on (an I/O error or
\* bytes that are not UTF-8).
ReadFault ==
    /\ pc = "loop"
    /\ input_open' = Release(input_open)
    /\ ReadFail("Error reading file: OSError")
    /\ UNCHANGED <<argv, fs, header, start_date, end_date, consumed,
                   complaint_counts, sorted_items, output_lines, stdout,
                   outfile, called>>

\* filter_complaints: the reader is exhausted; the with block ends and the
\* table is returned to main.
EndOfInput ==
    /\ pc = "loop"
    /\ input_open' = Release(input_open)
    /\ pc' = "output"
    /\ UNCHANGED <<argv, fs, header, start_date, end_date, consumed,
                   complaint_counts, sorted_items, output_lines, stdout,
                   stderr, outfile, status, called>>

\* output_results: 'if output_file' is false for no -o.
ToStdout(output_file) == output_file = ""

\* output_results(complaint_counts, args.output), then main returns.
\* With an output path: open() is refused, or open() creates or empties
\* the file and the write fails with some part of the text in the file, or
\* the text is written.  Without: print writes the text, or standard
\* output fails: sys.stdout is None and nothing happens (0), print raises
\* an OSError that nothing catches (1), or the final flush fails (120).
OutputResults ==
    /\ pc = "output"
    /\ sorted_items' = SortedItems(complaint_counts)
    /\ output_lines' = OutputLines(SortedItems(complaint_counts))
    /\ pc' = "done"
    /\ UNCHANGED <<argv, fs, header, start_date, end_date, input_open,
                   consumed, complaint_counts>>
    /\ LET lines == OutputLines(SortedItems(complaint_counts))
       IN  IF ~ToStdout(argv.output)
           THEN /\ called' = called \cup {"output_results", "open_output"}
                /\ UNCHANGED stdout
                /\ IF fs.output = "denied"
                   THEN /\ stderr' = Append(stderr, "Error writing to file")
                        /\ status' = 1
                        /\ UNCHANGED outfile
                   ELSE IF fs.output = "full"
                   THEN /\ \E k \in 0..(Len(lines) - 1) :
                              outfile' = [exists |-> TRUE,
                                          lines |-> SubSeq(lines, 1, k)]
                        /\ stderr' = Append(stderr, "Error writing to file")
                        /\ status' = 1
                   ELSE /\ outfile' = [exists |-> TRUE, lines |-> lines]
                        /\ status' = 0
                        /\ UNCHANGED stderr
           ELSE /\ called' = called \cup {"output_results"}
                /\ UNCHANGED outfile
                /\ IF fs.stdout = "ok"
                   THEN /\ stdout' = stdout \o lines
                        /\ status' = 0
                        /\ UNCHANGED stderr
                   ELSE \E st \in {0, 1, 120}, k \in 0..(Len(lines) - 1) :
                            /\ st = 0 => k = 0
                            /\ stdout' = stdout \o SubSeq(lines, 1, k)
                            /\ status' = st
                            /\ stderr' =
                                  IF st = 1
                                  THEN Append(stderr, "Traceback: OSError")
                                  ELSE IF st = 120
                                  THEN Append(stderr, "Exception ignored: OSError")
                                  ELSE stderr

Next ==
    \/ ParseArgs
    \/ ParseDates
    \/ OpenInput
    \/ ReadRow
    \/ ReadFault
    \/ EndOfInput
    \/ OutputResults

Spec == Init /\ [][Next]_vars

(* ======================================================================= *)
(* Properties                                                              *)
(* ======================================================================= *)

\* The run has opened the output path for writing.
FileOpened == "open_output" \in called /\ fs.output # "denied"

\* What the run has emitted as its result: the lines on standard output
\* and the lines it has put into the output file.
Emitted == stdout \o (IF FileOpened THEN outfile.lines ELSE <<>>)

\* The place the result goes to (the output path, or standard output
\* without -o) accepts what is written to it.
OutputAccepts == IF argv.output = "" THEN fs.stdout = "ok" ELSE fs.output = "ok"

\* The messages filter_complaints reports before it exits.
InputErrors ==
    { "Error: File not found.",
      "Error reading file: PermissionError",
      "Error reading file: OSError",
      "Error reading file: TypeError",
      "Error reading file: AttributeError" }

InputFailed == \E i \in DOMAIN stderr : stderr[i] \in InputErrors

\* The date of a date text, as (year, month, day).
DayOf(text) == <<text[3], text[1], text[2]>>

DayLeq(a, b) == a = b \/ TupleLess(a, b)

\* The row has a 'Created Date' text that is a timestamp in the window.
DateAdmitted(row) ==
    LET d == Get(header, row, ColDate)
    IN  /\ ~d.none
        /\ StrptimeStamp(d.v).ok
        /\ ~DtLess(StrptimeStamp(d.v).dt, start_date)
        /\ ~DtLess(end_date, StrptimeStamp(d.v).dt)

\* The row has 'Complaint Type' and 'Borough' texts that are not blank.
FieldsPresent(row) ==
    LET t == Get(header, row, ColType)
        b == Get(header, row, ColBorough)
    IN  /\ ~t.none
        /\ ~b.none
        /\ Strip(t.v) # <<>>
        /\ Strip(b.v) # <<>>

Survives(row) == DateAdmitted(row) /\ FieldsPresent(row)

\* The trimmed (complaint type, borough) of a row that has both texts.
PairOf(row) ==
    <<Strip(Get(header, row, ColType).v), Strip(Get(header, row, ColBorough).v)>>

NumSurviving(rows, pair) ==
    Cardinality({i \in DOMAIN rows : Survives(rows[i]) /\ PairOf(rows[i]) = pair})

SurvivingPairs(rows) ==
    {PairOf(rows[i]) : i \in {j \in DOMAIN rows : Survives(rows[j])}}

\* The pairs a state gives a reason to look at: the keys of the table and
\* the trimmed pairs of the rows read.  For any other pair both the count
\* and the number of rows are 0.
PairsOfInterest ==
    Keys(complaint_counts) \cup {PairOf(consumed[i]) : i \in DOMAIN consumed}

\* C1: while and after filter_complaints reads rows, the count stored under
\* every pair (c, b) is the number of rows read whose Created Date is a
\* timestamp within [start, end] and whose trimmed Complaint Type and
\* Borough are non-empty and equal to c and b; a pair with no such row is
\* not a key of the table.
C1_CountsMatchRows ==
    pc \in {"loop", "output", "done"} =>
        \A pair \in PairsOfInterest :
            /\ Count(complaint_counts, pair) = NumSurviving(consumed, pair)
            /\ (pair \in Keys(complaint_counts)) <=> (NumSurviving(consumed, pair) > 0)

\* C1 witness: the table was returned after three rows, two of which were
\* merged under ("A", "X") after trimming and one of which was skipped.
C1_Witness ==
    /\ pc = "output"
    /\ header = <<ColDate, ColType, ColBorough>>
    /\ consumed = << <<Jan31Last, sA, sX>>, <<Hour13, sA, sX>>,
                     <<Jan31First, sPadA, sTabX>> >>
    /\ complaint_counts = <<[k |-> <<sA, sX>>, n |-> 2]>>

\* The row has one of the per-row problems: its Created Date is missing,
\* empty, unparsable or outside the window, or its Complaint Type or
\* Borough is missing or blank.
Defective(row) == ~DateAdmitted(row) \/ ~FieldsPresent(row)

\* C2: a row with a per-row problem is skipped and nothing else happens:
\* the loop goes on, no error is reported, the process does not exit and
\* the counts of the other rows stay as they are.
C2_DefectiveRowIsSkipped ==
    [][(pc = "loop" /\ consumed' # consumed /\ Defective(Last(consumed')))
          => /\ pc' = "loop"
             /\ complaint_counts' = complaint_counts
             /\ stderr' = stderr
             /\ status' = Running]_vars

\* The day of the row's timestamp lies between the start day and the end
\* day given on the command line, both included.
DayInWindow(row) ==
    LET day == DayOf(Get(header, row, ColDate).v)
    IN  /\ DayLeq(DayOf(argv.start), day)
        /\ DayLeq(day, DayOf(argv.end))

\* The row has a well-formed timestamp and non-blank fields, so that it is
\* the date test alone that decides whether it is counted.
DecidedByDate(row) ==
    /\ ~Get(header, row, ColDate).none
    /\ StrptimeStamp(Get(header, row, ColDate).v).ok
    /\ FieldsPresent(row)

\* C3: the window is closed at both ends and ends with the last second of
\* the end day: a row with a timestamp t is admitted by the date test
\* exactly when S 00:00:00 <= t <= E 23:59:59, that is when the day of t
\* is between S and E inclusive; the record at E 11:59:59 PM and the one
\* at S 12:00:00 AM are admitted, the one at 12:00:00 AM after E is not.
C3_WindowInclusive ==
    [][(pc = "loop" /\ consumed' # consumed /\ DecidedByDate(Last(consumed')))
          => ((complaint_counts' # complaint_counts) <=> DayInWindow(Last(consumed')))]_vars

\* C3 witness: with the window 01/31/2024..01/31/2024 the records at
\* 12:00:00 AM and at 11:59:59 PM of that day were counted and the record
\* at 02/01/2024 12:00:00 AM was not.
C3_Witness ==
    /\ argv.start = <<1, 31, 2024>>
    /\ argv.end = <<1, 31, 2024>>
    /\ header = <<ColDate, ColType, ColBorough>>
    /\ consumed = << <<Jan31First, sPadA, sTabX>>, <<Jan31Last, sA, sX>>,
                     <<Feb01First, sB, sY>> >>
    /\ complaint_counts = <<[k |-> <<sA, sX>>, n |-> 2]>>

\* The sequence without its i-th element.
Without(rows, i) == SubSeq(rows, 1, i - 1) \o SubSeq(rows, i + 1, Len(rows))

\* The sequences that have the rows of rows in some order.
RECURSIVE Perms(_)
Perms(rows) ==
    IF rows = <<>> THEN {<<>>}
    ELSE UNION {{<<rows[i]>> \o p : p \in Perms(Without(rows, i))} : i \in DOMAIN rows}

\* What a run with the same command line, file system and header emits
\* when the file has the data lines rows and the reader does not fail.
RunEmits(rows) ==
    LET r == FilterAll(header, rows, start_date, end_date)
    IN  IF r.tag = "raise" THEN <<>>
        ELSE IF argv.output # "" /\ fs.output = "denied" THEN <<>>
        ELSE OutputLines(SortedItems(r.table))

StrictlyAscending(items) ==
    \A i, j \in DOMAIN items : i < j => KeyLess(items[i].k, items[j].k)

\* A run that got to the rows has ended, and not by a failure of the
\* reader or of a write of the result.
EndedOnRows ==
    /\ pc = "done"
    /\ "open_input" \in called
    /\ fs.input = "ok"
    /\ "Error reading file: OSError" \notin Range(stderr)
    /\ OutputAccepts \/ (argv.output # "" /\ fs.output = "denied")

\* C4: the data lines are the items of the table in strictly ascending
\* order of (complaint type, borough), complaint type compared first, one
\* line per key; and a run over the same rows in any other order emits
\* exactly the same output.
C4_SortedAndOrderIndependent ==
    /\ "output_results" \in called =>
          /\ StrictlyAscending(sorted_items)
          /\ Range(sorted_items) = Range(complaint_counts)
          /\ Len(sorted_items) = Len(complaint_counts)
          /\ Len(output_lines) = Len(sorted_items) + 1
          /\ \A i \in DOMAIN sorted_items :
                output_lines[i + 1] = DataLine(sorted_items[i])
    /\ EndedOnRows => \A p \in Perms(consumed) : RunEmits(p) = Emitted

\* C4 witness: three rows were read in descending order of their keys and
\* the three lines were emitted.
C4_Witness ==
    /\ pc = "done"
    /\ status = 0
    /\ complaint_counts = <<[k |-> <<sB, sX>>, n |-> 1], [k |-> <<sA, sY>>, n |-> 1],
                            [k |-> <<sA, sX>>, n |-> 1]>>
    /\ Len(Emitted) = 4

\* The command line is accepted by argparse, both dates parse and the
\* start is later than the end of the end day.
StartAfterEnd ==
    /\ Argparse(argv) = "ok"
    /\ StrptimeDate(argv.start).ok
    /\ StrptimeDate(argv.end).ok
    /\ TupleLess(DayOf(argv.end), DayOf(argv.start))

\* C5: when both dates parse and the start is later than the end, main
\* reports an error and ends with a non-zero status before the input is
\* opened and before output_results is called: nothing is written to
\* standard output or to the output path.
C5_StartAfterEndRejected ==
    StartAfterEnd =>
        /\ pc \in {"parse_args", "parse_dates", "done"}
        /\ "open_input" \notin called
        /\ "output_results" \notin called
        /\ ~input_open
        /\ stdout = <<>>
        /\ outfile = InitialFile(fs)
        /\ pc = "done" => (status # 0 /\ stderr # <<>>)

\* C5 witness: the run with start 02/01/2024 and end 01/31/2024 has ended.
C5_Witness ==
    /\ pc = "done"
    /\ argv.start = <<2, 1, 2024>>
    /\ argv.end = <<1, 31, 2024>>
    /\ argv.output = "out.csv"
    /\ status = 1

\* C6: a fatal input error (the path does not exist, the file cannot be
\* opened, reading fails at some row) ends the run with a non-zero status
\* and output_results is never called: nothing is on standard output and
\* the output path is never opened or created; output_results is reached
\* only after the whole input was read without a fatal error.
C6_NoPartialOutput ==
    /\ InputFailed =>
          /\ pc = "done"
          /\ status # 0
          /\ status # Running
          /\ "output_results" \notin called
          /\ "open_output" \notin called
          /\ stdout = <<>>
          /\ outfile = InitialFile(fs)
          /\ output_lines = <<>>
    /\ (pc = "output" \/ "output_results" \in called) =>
          /\ ~InputFailed
          /\ "open_input" \in called
          /\ fs.input = "ok"
          /\ FilterAll(header, consumed, start_date, end_date).tag = "ok"

\* C6 witness: reading failed after two rows had been counted, in a run
\* that was to write an output file.
C6_Witness ==
    /\ pc = "done"
    /\ stderr = <<"Error reading file: OSError">>
    /\ Len(complaint_counts) = 2
    /\ argv.output = "out.csv"
    /\ fs.output = "ok"

\* The arguments validate: argparse accepts them, both dates parse and the
\* start is not later than the end.
ArgsValidate ==
    /\ Argparse(argv) = "ok"
    /\ StrptimeDate(argv.start).ok
    /\ StrptimeDate(argv.end).ok
    /\ DayLeq(DayOf(argv.start), DayOf(argv.end))

\* The input was read to its end without a fatal error.
ReadCompletely ==
    /\ fs.input = "ok"
    /\ "open_input" \in called
    /\ ~InputFailed
    /\ FilterAll(header, consumed, start_date, end_date).tag = "ok"

\* The output was written to standard output or to the output path.
OutputWritten ==
    /\ "output_results" \in called
    /\ OutputAccepts
    /\ Emitted = output_lines
    /\ Len(Emitted) >= 1
    /\ Emitted[1] = HeaderLine

UsesStdout ==
    \/ Argparse(argv) = "help"
    \/ ("output_results" \in called /\ argv.output = "")

C8_HeaderAndOneLinePerPair ==
    "output_results" \in called =>
        /\ Len(output_lines) = 1 + Cardinality(SurvivingPairs(consumed))
        /\ output_lines[1] = HeaderLine
        /\ \A pair \in SurvivingPairs(consumed) :
              Cardinality({i \in 2..Len(output_lines) :
                  output_lines[i] = pair[1] \o <<COMMA, SP>> \o pair[2] \o <<COMMA, SP>>
                                        \o Digits(NumSurviving(consumed, pair))}) = 1
        /\ OutputAccepts =>
              /\ status = 0
              /\ Emitted = output_lines
              /\ SurvivingPairs(consumed) = {} => Emitted = <<HeaderLine>>

\* C8 witness: three rows survived under two pairs and the header and two
\* lines were written to the output file.
C8_Witness ==
    /\ pc = "done"
    /\ status = 0
    /\ Len(consumed) = 3
    /\ \A i \in DOMAIN consumed : Survives(consumed[i])
    /\ Len(outfile.lines) = 3
    /\ outfile.exists

\* C9: the input file is open only during the read loop: it is closed
\* when filter_complaints returns the table and when it ends the process
\* after a failed open or a read error, and it is never open while
\* output_results runs.
C9_InputOpenOnlyInLoop ==
    /\ input_open => pc = "loop"
    /\ pc = "loop" => input_open
    /\ pc \in {"output", "done"} => ~input_open

\* C9 witness: the process was ended by an exception raised at the third
\* row, with two rows counted before, and the file is closed.
C9_Witness ==
    /\ pc = "done"
    /\ stderr = <<"Error reading file: AttributeError">>
    /\ Len(consumed) = 3
    /\ Len(complaint_counts) = 2
    /\ ~input_open

CountsPositive(items) == \A i \in DOMAIN items : items[i].n >= 1

\* C10: in every state every key of the table has a count >= 1, in the
\* table handed to output_results as well; a skipped row adds no key, and
\* no step decreases a count or removes a key.
C10_CountsAtLeastOne ==
    /\ [](CountsPositive(complaint_counts) /\ CountsPositive(sorted_items))
    /\ [][/\ \A k \in Keys(complaint_counts) :
                Count(complaint_counts', k) >= Count(complaint_counts, k)
          /\ (consumed' # consumed /\ ~Survives(Last(consumed')))
                => Keys(complaint_counts') = Keys(complaint_counts)]_vars

\* C10 witness: the table handed to output_results has a key counted
\* twice and a key counted once, and a skipped row was read.
C10_Witness ==
    /\ "output_results" \in called
    /\ Len(sorted_items) = 2
    /\ \E i \in DOMAIN sorted_items : sorted_items[i].n = 2
    /\ \E i \in DOMAIN sorted_items : sorted_items[i].n = 1
    /\ Len(consumed) = 3

====
